---- MODULE Spec2Model ----
(***************************************************************************)
(* Model of package cemi (knx/cemi/cemi.go, knx/cemi/lbusmon.go): the CEMI *)
(* frame codec, the additional-info segment, the raw UnsupportedMessage    *)
(* and the L_Busmon.ind message.                                           *)
(*                                                                         *)
(* Go slices are modelled as sequences of bytes (index 1 is Go index 0).   *)
(* Where the code reslices past len(data) the slice is modelled together   *)
(* with the rest of its backing array (see InfoUnpack).                    *)
(***************************************************************************)
EXTENDS Integers, Sequences, FiniteSets, TLC

\* ------------------------------------------------------------------ bounds
\* longest payload / input handed to a decode call
MaxLen == 2
\* bytes of backing array behind an input slice beyond its length
MaxExtra == 2
\* longest Info constructed by a caller
MaxInfoLen == 511

\* ------------------------------------------------------- program constants
LBusmonIndCode == 43
LDataReqCode == 17
LDataIndCode == 41
LDataConCode == 46
LRawReqCode == 16
LRawIndCode == 45
LRawConCode == 47

\* codes with a case of their own in the switch of Unpack
RegisteredCodes ==
  {LBusmonIndCode, LDataReqCode, LDataIndCode, LDataConCode,
   LRawReqCode, LRawIndCode, LRawConCode}

\* ------------------------------------------------------------ input domains
\* first bytes of the frames handed to Unpack: the code of the variant in
\* lbusmon.go, the code of a variant defined elsewhere, and a code without a
\* case in the switch (0x13, the commented-out LPollDataReqCode)
TagBytes == {LBusmonIndCode, LDataReqCode, 19}
PayloadBytes == {1, 2}
\* marks a buffer position no Pack has written
Unwritten == -1

Min(a, b) == IF a < b THEN a ELSE b

SeqsUpTo(S, n) == UNION {[1..k -> S] : k \in 0..n}

Payloads == SeqsUpTo(PayloadBytes, MaxLen)

\* inputs of Info.Unpack: a slice, and what lies behind it in its backing
\* array (between len and cap)
InfoBytes == {0, 1, 2}
ExtraBytes == {9}
InfoInputs == SeqsUpTo(InfoBytes, MaxLen)
InfoExtras == SeqsUpTo(ExtraBytes, MaxExtra)

\* the Info of k bytes a caller constructs; no two windows of it are equal
MkInfo(k) == [i \in 1..k |-> (7 * i + (i \div 256)) % 256]
InfoValues == {MkInfo(k) : k \in 0..MaxInfoLen}
Frames == {<<>>} \cup {<<t>> \o p : t \in TagBytes, p \in Payloads}

\* ------------------------------------------------------------- Go built-ins
\* copy(dst, src): overwrites the first min(len) positions of dst
Copy(dst, src) ==
  [i \in 1..Len(dst) |-> IF i <= Len(src) THEN src[i] ELSE dst[i]]
CopyCount(dst, src) == Min(Len(dst), Len(src))
\* make([]byte, n)
Make(n) == [i \in 1..n |-> 0]
\* s[lo:] for a Go offset lo
From(s, lo) == SubSeq(s, lo + 1, Len(s))
\* uint8(x)
Uint8(x) == x % 256

\* -------------------------------------------------- helpers outside src/
\* util.Unpack(data, &byte): reads one byte, fails on empty input
UtilUnpackByte(data) ==
  IF Len(data) < 1 THEN [n |-> 0, err |-> TRUE, value |-> 0]
  ELSE [n |-> 1, err |-> FALSE, value |-> data[1]]

\* ------------------------------------------------------------------- state
\* heap    : the message objects the caller can reach, by address
\* message : the caller's Message variable, an address or Nil
\* last    : the most recent call on a message and what it returned
\* info    : the caller's Info value
\* ilast   : the most recent call on info and what it returned
VARIABLES heap, message, last, info, ilast
vars == <<heap, message, last, info, ilast>>

Nil == 0
Addrs == {1, 2}
NoObj == [kind |-> "none", Code |-> 0, Data |-> <<>>]
NoCall == [op |-> "none", data |-> <<>>, n |-> 0, err |-> FALSE, out |-> <<>>]

\* kinds whose methods are in lbusmon.go and cemi.go
SourceKinds == {"LBusmonInd", "UnsupportedMessage"}

\* --------------------------------------------------------------- LBusmonInd
LBusmonIndMessageCode == LBusmonIndCode

LBusmonIndSize(lbm) == Len(lbm.Data)

LBusmonIndPack(lbm, buffer) == Copy(buffer, lbm.Data)

LBusmonIndWriteTo(lbm) == [out |-> lbm.Data, n |-> Len(lbm.Data)]

\* variant: the bytes are never copied into the fresh target
LBusmonIndUnpack_nocopy(lbm, data) ==
  [body |-> [lbm EXCEPT !.Data = Make(Len(data))], n |-> Len(data),
   err |-> FALSE]

LBusmonIndUnpack(lbm, data) ==
  LET target == IF Len(lbm.Data) < Len(data) THEN Make(Len(data)) ELSE lbm.Data
  IN [body |-> [lbm EXCEPT !.Data = Copy(target, data)],
      n |-> CopyCount(target, data),
      err |-> FALSE]

\* ------------------------------------------------------- UnsupportedMessage
UnsupportedMessageSize(body) == Len(body.Data)

UnsupportedMessagePack(body, buffer) == Copy(buffer, body.Data)

UnsupportedMessageMessageCode(body) == body.Code

UnsupportedMessageUnpack(body, data) ==
  LET Data == IF Len(body.Data) < Len(data) THEN Make(Len(data)) ELSE body.Data
  IN [body |-> [body EXCEPT !.Data = Copy(Data, data)],
      n |-> CopyCount(Data, data),
      err |-> FALSE]

UnsupportedMessageWriteTo(body) == [out |-> body.Data, n |-> Len(body.Data)]

\* ------------------------------------------- the variants outside the source
\* LDataReq, LDataCon, LDataInd, LRawReq, LRawCon, LRawInd: their fields are
\* not modelled; their Unpack either fails or succeeds on some prefix
PeerUnpack(body, data) ==
  {[body |-> body, n |-> 0, err |-> TRUE]} \cup
  {[body |-> body, n |-> k, err |-> FALSE] : k \in 0..Len(data)}

PeerMessageCode(body) ==
  CASE body.kind = "LDataReq" -> LDataReqCode
    [] body.kind = "LDataCon" -> LDataConCode
    [] body.kind = "LDataInd" -> LDataIndCode
    [] body.kind = "LRawReq" -> LRawReqCode
    [] body.kind = "LRawCon" -> LRawConCode
    [] body.kind = "LRawInd" -> LRawIndCode

\* ------------------------------------------------ Message interface dispatch
MessageCode(m) ==
  CASE m.kind = "LBusmonInd" -> LBusmonIndMessageCode
    [] m.kind = "UnsupportedMessage" -> UnsupportedMessageMessageCode(m)
    [] OTHER -> PeerMessageCode(m)

MessageSize(m) ==
  CASE m.kind = "LBusmonInd" -> LBusmonIndSize(m)
    [] m.kind = "UnsupportedMessage" -> UnsupportedMessageSize(m)

MessagePack(m, buffer) ==
  CASE m.kind = "LBusmonInd" -> LBusmonIndPack(m, buffer)
    [] m.kind = "UnsupportedMessage" -> UnsupportedMessagePack(m, buffer)

MessageWriteTo(m) ==
  CASE m.kind = "LBusmonInd" -> LBusmonIndWriteTo(m)
    [] m.kind = "UnsupportedMessage" -> UnsupportedMessageWriteTo(m)

\* the outcomes of body.Unpack(data)
MessageUnpack(m, data) ==
  CASE m.kind = "LBusmonInd" -> {LBusmonIndUnpack(m, data)}
    [] m.kind = "UnsupportedMessage" -> {UnsupportedMessageUnpack(m, data)}
    [] OTHER -> PeerUnpack(m, data)

\* util.PackSome(buffer, code, message): the code byte, then message.Pack on
\* the rest of the buffer
UtilPackSome(buffer, code, m) ==
  <<code>> \o MessagePack(m, From(buffer, 1))

\* ------------------------------------------------------------ package cemi
\* variant: the default case forgets the code
ZeroBody_nocode(code) ==
  CASE code = LBusmonIndCode -> [kind |-> "LBusmonInd", Code |-> 0, Data |-> <<>>]
    [] code = LDataReqCode -> [kind |-> "LDataReq", Code |-> 0, Data |-> <<>>]
    [] code = LDataConCode -> [kind |-> "LDataCon", Code |-> 0, Data |-> <<>>]
    [] code = LDataIndCode -> [kind |-> "LDataInd", Code |-> 0, Data |-> <<>>]
    [] code = LRawReqCode -> [kind |-> "LRawReq", Code |-> 0, Data |-> <<>>]
    [] code = LRawConCode -> [kind |-> "LRawCon", Code |-> 0, Data |-> <<>>]
    [] code = LRawIndCode -> [kind |-> "LRawInd", Code |-> 0, Data |-> <<>>]
    [] OTHER -> [kind |-> "UnsupportedMessage", Code |-> 0, Data |-> <<>>]

\* variant: the body is the instance the caller's message already holds when
\* it is of the kind the code selects, instead of a zero value
ZeroBody_reuse(code) ==
  LET kind == CASE code = LBusmonIndCode -> "LBusmonInd"
                [] code = LDataReqCode -> "LDataReq"
                [] code = LDataConCode -> "LDataCon"
                [] code = LDataIndCode -> "LDataInd"
                [] code = LRawReqCode -> "LRawReq"
                [] code = LRawConCode -> "LRawCon"
                [] code = LRawIndCode -> "LRawInd"
                [] OTHER -> "UnsupportedMessage"
  IN IF message # 0 /\ heap[message].kind = kind
     THEN [heap[message] EXCEPT !.Code = IF kind = "UnsupportedMessage"
                                         THEN code ELSE 0]
     ELSE [kind |-> kind,
           Code |-> IF kind = "UnsupportedMessage" THEN code ELSE 0,
           Data |-> <<>>]

\* the switch of Unpack: a zero-valued body for the code
ZeroBody(code) ==
  CASE code = LBusmonIndCode -> [kind |-> "LBusmonInd", Code |-> 0, Data |-> <<>>]
    [] code = LDataReqCode -> [kind |-> "LDataReq", Code |-> 0, Data |-> <<>>]
    [] code = LDataConCode -> [kind |-> "LDataCon", Code |-> 0, Data |-> <<>>]
    [] code = LDataIndCode -> [kind |-> "LDataInd", Code |-> 0, Data |-> <<>>]
    [] code = LRawReqCode -> [kind |-> "LRawReq", Code |-> 0, Data |-> <<>>]
    [] code = LRawConCode -> [kind |-> "LRawCon", Code |-> 0, Data |-> <<>>]
    [] code = LRawIndCode -> [kind |-> "LRawInd", Code |-> 0, Data |-> <<>>]
    [] OTHER -> [kind |-> "UnsupportedMessage", Code |-> code, Data |-> <<>>]

\* the address of the body a call of Unpack allocates: one the caller holds
\* no message at
NewAddr == IF message = 1 THEN 2 ELSE 1

\* variant: the body is stored whatever err is
StoreMessage_always(err, old, body) == body

\* if err == nil { *message = body }
StoreMessage(err, old, body) == IF ~err THEN body ELSE old

\* variant: the byte of the message code is not counted
Size_notag(m) == MessageSize(m)

Size(m) == 1 + MessageSize(m)

Pack(buffer, m) == UtilPackSome(buffer, MessageCode(m), m)

\* a caller's buffer of n bytes, none of them written yet
Blank(n) == [i \in 1..n |-> Unwritten]

\* cemi.Unpack(data, &message)
Unpack(data) ==
  LET hdr == UtilUnpackByte(data) IN
  /\ IF hdr.err
     THEN /\ last' = [op |-> "Unpack", data |-> data, n |-> hdr.n,
                      err |-> TRUE, out |-> <<>>]
          /\ UNCHANGED <<heap, message>>
     ELSE \E r \in MessageUnpack(ZeroBody(hdr.value), From(data, hdr.n)) :
          /\ message' = StoreMessage(r.err, message, NewAddr)
          /\ heap' = IF message' = NewAddr
                     THEN [heap EXCEPT ![NewAddr] = r.body]
                     ELSE heap
          /\ last' = [op |-> "Unpack", data |-> data, n |-> hdr.n + r.n,
                      err |-> r.err, out |-> <<>>]
  /\ UNCHANGED <<info, ilast>>

\* the caller decodes into the instance it already holds: body.Unpack(data)
BodyUnpack(data) ==
  /\ message # Nil
  /\ heap[message].kind \in SourceKinds
  /\ \E r \in MessageUnpack(heap[message], data) :
       /\ heap' = [heap EXCEPT ![message] = r.body]
       /\ last' = [op |-> "BodyUnpack", data |-> data, n |-> r.n,
                   err |-> r.err, out |-> <<>>]
  /\ UNCHANGED <<message, info, ilast>>

\* cemi.Size(message)
CallSize ==
  /\ message # Nil
  /\ heap[message].kind \in SourceKinds
  /\ last' = [op |-> "Size", data |-> <<>>, n |-> Size(heap[message]),
              err |-> FALSE, out |-> <<>>]
  /\ UNCHANGED <<heap, message, info, ilast>>

\* buffer := make([]byte, cemi.Size(message)); cemi.Pack(buffer, message)
CallPack ==
  /\ message # Nil
  /\ heap[message].kind \in SourceKinds
  /\ LET n == Size(heap[message]) IN
     last' = [op |-> "Pack", data |-> <<>>, n |-> n, err |-> FALSE,
              out |-> Pack(Blank(n), heap[message])]
  /\ UNCHANGED <<heap, message, info, ilast>>

\* message.WriteTo(w) on a writer that accepts everything
CallWriteTo ==
  /\ message # Nil
  /\ heap[message].kind \in SourceKinds
  /\ LET w == MessageWriteTo(heap[message]) IN
     last' = [op |-> "WriteTo", data |-> <<>>, n |-> w.n, err |-> FALSE,
              out |-> w.out]
  /\ UNCHANGED <<heap, message, info, ilast>>

\* -------------------------------------------------------------------- Info
\* encoding.WriteSome(w, fields...): writes the fields in order
EncodingWriteSome(length, bytes) ==
  [out |-> <<length>> \o bytes, n |-> 1 + Len(bytes)]

InfoSize(i) == IF Len(i) > 255 THEN 256 ELSE 1 + Len(i)

\* variant: the length byte wraps as it does in WriteTo
InfoPack_wrap(i, buffer) ==
  LET b0 == Uint8(Len(i))
  IN <<b0>> \o Copy(From(buffer, 1), SubSeq(i, 1, b0))

\* buffer[0] is set first; copy then reads it back as the slice bound
InfoPack(i, buffer) ==
  LET b0 == IF Len(i) > 255 THEN 255 ELSE Uint8(Len(i))
  IN <<b0>> \o Copy(From(buffer, 1), SubSeq(i, 1, b0))

\* Info.Unpack(data) where extra is the part of data's backing array between
\* len(data) and cap(data).  data[n:n+length] is legal up to cap(data) and
\* panics beyond it.
InfoUnpack(i, data, extra) ==
  LET hdr == UtilUnpackByte(data)
      length == hdr.value
      arr == data \o extra
      hi == hdr.n + length
  IN IF hdr.err THEN [info |-> i, n |-> hdr.n, result |-> "err"]
     ELSE IF length > 0
          THEN IF hi > Len(arr)
               THEN [info |-> i, n |-> hdr.n, result |-> "panic"]
               ELSE LET buf == Copy(Make(length), SubSeq(arr, hdr.n + 1, hi))
                    IN [info |-> buf,
                        n |-> hdr.n + CopyCount(Make(length),
                                                SubSeq(arr, hdr.n + 1, hi)),
                        result |-> "ok"]
          ELSE [info |-> <<>>, n |-> hdr.n, result |-> "ok"]

\* variant: the length byte is clamped as it is in Pack
InfoWriteTo_clamp(i) ==
  LET length == IF Len(i) > 255 THEN 255 ELSE Len(i)
  IN EncodingWriteSome(length, SubSeq(i, 1, length))

InfoWriteTo(i) ==
  LET length == Uint8(Len(i))
  IN EncodingWriteSome(length, SubSeq(i, 1, length))

\* ilast.packed: the data decoded is the buffer a Pack filled, and ilast.src
\* is the Info that was packed
NoInfoCall == [op |-> "none", data |-> <<>>, extra |-> <<>>, n |-> 0,
               result |-> "ok", out |-> <<>>, packed |-> FALSE, src |-> <<>>]

\* info.Size()
CallInfoSize ==
  /\ ilast' = [NoInfoCall EXCEPT !.op = "Size", !.n = InfoSize(info)]
  /\ UNCHANGED <<heap, message, last, info>>

\* buffer := make([]byte, info.Size()); info.Pack(buffer)
CallInfoPack ==
  /\ ilast' = [NoInfoCall EXCEPT !.op = "Pack", !.n = InfoSize(info),
                                 !.out = InfoPack(info, Blank(InfoSize(info)))]
  /\ UNCHANGED <<heap, message, last, info>>

\* info.Unpack(data) on received bytes
CallInfoUnpack(data, extra) ==
  /\ LET r == InfoUnpack(info, data, extra) IN
       /\ info' = r.info
       /\ ilast' = [NoInfoCall EXCEPT !.op = "Unpack", !.data = data,
                                      !.extra = extra, !.n = r.n,
                                      !.result = r.result]
  /\ UNCHANGED <<heap, message, last>>

\* info.Unpack(buffer) on the buffer the preceding Pack filled
CallInfoUnpackPacked ==
  /\ ilast.op = "Pack"
  /\ LET r == InfoUnpack(info, ilast.out, <<>>) IN
       /\ info' = r.info
       /\ ilast' = [NoInfoCall EXCEPT !.op = "Unpack", !.data = ilast.out,
                                      !.n = r.n, !.result = r.result,
                                      !.packed = TRUE, !.src = info]
  /\ UNCHANGED <<heap, message, last>>

\* info.WriteTo(w) on a writer that accepts everything
CallInfoWriteTo ==
  /\ LET w == InfoWriteTo(info) IN
       ilast' = [NoInfoCall EXCEPT !.op = "WriteTo", !.n = w.n, !.out = w.out]
  /\ UNCHANGED <<heap, message, last, info>>

Init ==
  /\ heap = [a \in Addrs |-> NoObj]
  /\ message = Nil
  /\ last = NoCall
  /\ info = <<>>
  /\ ilast = NoInfoCall

Next ==
  \/ \E data \in Frames : Unpack(data)
  \/ \E data \in Payloads : BodyUnpack(data)
  \/ CallSize
  \/ CallPack
  \/ CallWriteTo

Spec == Init /\ [][Next]_vars

\* the Info segment on its own: the caller holds an Info it constructed
InitInfo ==
  /\ heap = [a \in Addrs |-> NoObj]
  /\ message = Nil
  /\ last = NoCall
  /\ info \in InfoValues
  /\ ilast = NoInfoCall

NextInfo ==
  \/ CallInfoSize
  \/ CallInfoPack
  \/ \E data \in InfoInputs, extra \in InfoExtras : CallInfoUnpack(data, extra)
  \/ CallInfoUnpackPacked
  \/ CallInfoWriteTo

SpecInfo == InitInfo /\ [][NextInfo]_vars

\* ===================================================================
\* Properties
\* ===================================================================
Other(a) == 3 - a
Encoded(m) == Pack(Blank(Size(m)), m)
Clamp(k) == Min(k, 255)

\* C1: for every LBusmonInd m, the frame cemi.Pack writes into a buffer of
\* cemi.Size(m) bytes is the code 0x2B followed by the bytes of m, and
\* decoding such a frame succeeds, consumes all cemi.Size(m) bytes and yields
\* an LBusmonInd with message code 0x2B and the payload of m; packing the
\* decoded message gives the same buffer.
LBusmonIndOf(p) == [kind |-> "LBusmonInd", Code |-> 0, Data |-> p]

C1_RoundTrip ==
  /\ \A p \in Payloads :
       /\ Size(LBusmonIndOf(p)) = 1 + Len(p)
       /\ Encoded(LBusmonIndOf(p)) = <<43>> \o p
  /\ \A p \in Payloads :
       (last.op = "Unpack" /\ last.data = Encoded(LBusmonIndOf(p)))
       => /\ ~last.err
          /\ last.n = Size(LBusmonIndOf(p))
          /\ last.n = Len(last.data)
          /\ message # Nil
          /\ MessageCode(heap[message]) = 43
          /\ heap[message] = LBusmonIndOf(p)
          /\ Encoded(heap[message]) = last.data

\* the packing of an LBusmonInd of MaxLen bytes has been decoded
C1_Witness ==
  /\ last.op = "Unpack"
  /\ message # Nil
  /\ heap[message].kind = "LBusmonInd"
  /\ Len(heap[message].Data) = MaxLen
  /\ last.data = Encoded(heap[message])
  /\ last.n = 1 + MaxLen

\* C2: a non-empty input whose first byte has no case in the switch decodes
\* without error into an UnsupportedMessage with Code = data[0] and
\* Data = data[1:], n = len(data), and packing it reproduces the input; the
\* default case is taken for every one of the 249 unregistered codes.
C2_TagFidelity ==
  /\ \A c \in (0..255) \ RegisteredCodes :
       ZeroBody(c) = [kind |-> "UnsupportedMessage", Code |-> c, Data |-> <<>>]
  /\ (/\ last.op = "Unpack"
      /\ Len(last.data) >= 1
      /\ last.data[1] \notin RegisteredCodes)
     => /\ ~last.err
        /\ last.n = Len(last.data)
        /\ message # Nil
        /\ heap[message] = [kind |-> "UnsupportedMessage",
                            Code |-> last.data[1],
                            Data |-> Tail(last.data)]
        /\ Size(heap[message]) = Len(last.data)
        /\ Encoded(heap[message]) = last.data

C2_Witness ==
  /\ last.op = "Unpack"
  /\ Len(last.data) = 1 + MaxLen
  /\ last.data[1] \notin RegisteredCodes
  /\ message # Nil
  /\ heap[message].Code = last.data[1]

\* C3 (as claimed): Info.Unpack of a non-empty input shorter than 1 + data[0]
\* returns an error.
C3_Original ==
  (/\ ilast.op = "Unpack"
   /\ Len(ilast.data) >= 1
   /\ Len(ilast.data) < 1 + ilast.data[1])
  => ilast.result = "err"

\* C4 (as claimed): after LBusmonInd.Unpack(data) on a held instance the
\* instance equals data and the consumed count is len(data).
C4_Original ==
  (/\ last.op = "BodyUnpack"
   /\ heap[message].kind = "LBusmonInd")
  => /\ heap[message].Data = last.data
     /\ last.n = Len(last.data)

\* C5: Size() = 1 + min(k, 255); Pack writes the byte min(k, 255) and the
\* first min(k, 255) bytes; Unpack of that buffer yields those bytes and
\* consumes Size() bytes; an empty Info packs to [0x00] and [0x00] decodes
\* to an empty Info consuming one byte.
C5_ClampedRoundTrip ==
  /\ ilast.op = "Size"
     => /\ ilast.n = 1 + Clamp(Len(info))
        /\ ilast.n \in 1..256
  /\ ilast.op = "Pack"
     => /\ ilast.out = <<Clamp(Len(info))>> \o SubSeq(info, 1, Clamp(Len(info)))
        /\ Len(ilast.out) = InfoSize(info)
        /\ (info = <<>> => ilast.out = <<0>>)
  /\ (ilast.op = "Unpack" /\ ilast.packed)
     => /\ ilast.result = "ok"
        /\ info = SubSeq(ilast.src, 1, Clamp(Len(ilast.src)))
        /\ ilast.n = InfoSize(ilast.src)
        /\ ilast.n = Len(ilast.data)
  /\ (ilast.op = "Unpack" /\ ilast.data = <<0>>)
     => /\ ilast.result = "ok"
        /\ info = <<>>
        /\ ilast.n = 1

\* the packing of an Info of 300 bytes has been decoded to 255 bytes
C5_Witness ==
  /\ ilast.op = "Unpack"
  /\ ilast.packed
  /\ Len(ilast.src) = 300
  /\ Len(info) = 255
  /\ ilast.n = 256

\* C6: Unpack of an empty input returns an error; a call that returns an
\* error leaves the caller's message and the object it holds as they were;
\* a call that succeeds makes message the newly decoded body.
C6_FailureLeavesMessage ==
  [][last'.op = "Unpack"
     => /\ (last'.data = <<>> => last'.err)
        /\ (last'.err => message' = message /\ heap' = heap)
        /\ (~last'.err => message' = NewAddr /\ message' # message)]_vars

\* the selected variant's Unpack has failed while a message was held
C6_Witness ==
  /\ last.op = "Unpack"
  /\ last.err
  /\ last.data # <<>>
  /\ message # Nil
  /\ heap[message].kind \in SourceKinds

\* C7: cemi.Size(m) = 1 + m.Size() = 1 + the number of payload bytes; Pack
\* into a buffer of cemi.Size(m) bytes writes the message code at position 0
\* and the payload after it, leaves no position unwritten and writes nothing
\* more.
C7_SizeEncode ==
  /\ last.op = "Size"
     => /\ last.n = 1 + MessageSize(heap[message])
        /\ last.n = 1 + Len(heap[message].Data)
  /\ last.op = "Pack"
     => /\ Len(last.out) = 1 + Len(heap[message].Data)
        /\ Len(last.out) = Size(heap[message])
        /\ last.out[1] = MessageCode(heap[message])
        /\ \A i \in 1..Len(heap[message].Data) :
             last.out[i + 1] = heap[message].Data[i]
        /\ \A i \in 1..Len(last.out) : last.out[i] # Unwritten

C7_Witness ==
  /\ last.op = "Pack"
  /\ heap[message].kind = "UnsupportedMessage"
  /\ Len(heap[message].Data) = MaxLen
  /\ Len(last.out) = 1 + MaxLen

\* C8 (as claimed): after UnsupportedMessage.Unpack(data) on a held instance
\* there is no error, the consumed count is len(data), Size() = len(data)
\* and Pack and WriteTo emit exactly data.
C8_Original ==
  (/\ last.op = "BodyUnpack"
   /\ heap[message].kind = "UnsupportedMessage")
  => /\ ~last.err
     /\ last.n = Len(last.data)
     /\ UnsupportedMessageSize(heap[message]) = Len(last.data)
     /\ UnsupportedMessagePack(heap[message], Blank(Len(last.data))) = last.data
     /\ UnsupportedMessageWriteTo(heap[message]).out = last.data

\* C9 (as claimed): WriteTo emits the byte k mod 256 and the first k mod 256
\* bytes; for k <= 255 that is what Pack writes, for k > 255 the length bytes
\* of the two differ.
C9_Original ==
  ilast.op = "WriteTo"
  => LET k == Len(info)
         packed == InfoPack(info, Blank(InfoSize(info)))
     IN /\ ilast.out = <<k % 256>> \o SubSeq(info, 1, k % 256)
        /\ (k <= 255 => ilast.out = packed)
        /\ (k > 255 => ilast.out[1] # packed[1])

\* C9 (amended): as claimed, but for k > 255 the length bytes differ only
\* when k mod 256 is not 255; when it is 255 both paths emit the same bytes.
C9_WrapNotClamp ==
  ilast.op = "WriteTo"
  => LET k == Len(info)
         packed == InfoPack(info, Blank(InfoSize(info)))
     IN /\ ilast.out = <<k % 256>> \o SubSeq(info, 1, k % 256)
        /\ (k <= 255 => ilast.out = packed)
        /\ (k > 255 /\ k % 256 # 255 => ilast.out[1] # packed[1])
        /\ (k > 255 /\ k % 256 = 255 => ilast.out = packed)

\* WriteTo on an Info of 300 bytes has emitted the length 44 and 44 bytes
C9_Witness ==
  /\ ilast.op = "WriteTo"
  /\ Len(info) = 300
  /\ ilast.out[1] = 44
  /\ Len(ilast.out) = 45

\* C10: a successful Unpack leaves a message whose code is data[0] and, for
\* the variants in the source, whose payload is exactly data[1:], whatever
\* the message variable held before; the object held before the call, and
\* every other object the caller can reach, is unchanged by the call.
C10_HistoryIndependent ==
  [][(last'.op = "Unpack" /\ ~last'.err)
     => /\ message' # Nil
        /\ MessageCode(heap'[message']) = last'.data[1]
        /\ (heap'[message'].kind \in SourceKinds
            => heap'[message'].Data = Tail(last'.data))
        /\ \A a \in Addrs : a # message' => heap'[a] = heap[a]
        /\ (message # Nil => heap'[message] = heap[message])]_vars

\* a long frame has been decoded, then a shorter one of the same kind
C10_Witness ==
  /\ last.op = "Unpack"
  /\ ~last.err
  /\ message # Nil
  /\ heap[message].kind \in SourceKinds
  /\ heap[Other(message)].kind = heap[message].kind
  /\ Len(heap[Other(message)].Data) = MaxLen
  /\ Len(heap[message].Data) < MaxLen
  /\ heap[message].Data = Tail(last.data)
====
